---- MODULE Spec2Model ----
(***************************************************************************)
(* The tool functions of agent.py as state machines.                       *)
(*                                                                         *)
(* Spec        create_slide: NumInvocations invocations on one             *)
(*             presentation, their remote calls interleaved in every order *)
(*             (sequential runs are among the interleavings).  One action  *)
(*             per remote call; an action holds the call, the service's    *)
(*             effect and the local code that follows up to the next call  *)
(*             or return.                                                  *)
(* LayoutSpec  create_slide: one invocation, every layout list.            *)
(* ToolSpec    create_presentation_from_template, read_google_doc and      *)
(*             read_content_from_public_url, called one at a time.         *)
(*                                                                         *)
(* A remote call either completes (its effect applied, its reply returned) *)
(* or fails (no effect, an exception in the caller).  A batchUpdate is     *)
(* applied as a whole or not at all.                                       *)
(***************************************************************************)
EXTENDS Integers, Sequences, FiniteSets, TLC

VARIABLES
    layouts,    \* the presentation's layout list, as the service returns it
    slides,     \* the presentation's slides, in order (service state)
    uuidCtr,    \* number of uuid4() tokens handed out so far
    inv,        \* inv[p]: the locals and position of create_slide invocation p
    call,       \* the current call of one of the three other tools
    netCalls    \* the network calls issued by the current call of `call`

vars == <<layouts, slides, uuidCtr, inv, call, netCalls>>

----------------------------------------------------------------------------
(* Bounds *)

NumInvocations == 2
MaxLayouts == 2
MaxEntries == 3
MaxUrlLen == 3

Procs == 1..NumInvocations

----------------------------------------------------------------------------
(* Values *)

\* Python's None
None == "None"

\* The placeholder type of a page element is "TITLE", "BODY" or another type
\* ("SUBTITLE"); NoPlaceholder is an element whose shape carries no
\* placeholder (element.get("shape", {}).get("placeholder", {}) is empty).
NoPlaceholder == "NO_PLACEHOLDER"

\* The page elements a layout can have (placeholder role of each, in order).
LayoutShapes ==
    { <<>>,
      <<"TITLE">>,
      <<NoPlaceholder, "BODY">>,
      <<"TITLE", "BODY">>,
      <<"SUBTITLE", "BODY", "TITLE">> }

\* The page elements the service can give a new slide.  NoKey is a slide whose
\* JSON has no 'pageElements' key (the API omits empty fields).
NoKey == "NO_KEY"
SlideShapes ==
    { NoKey,
      <<>>,
      <<"TITLE", "BODY">>,
      <<"TITLE", "SUBTITLE">>,
      <<NoPlaceholder, "BODY">> }

\* credential.oauth2 is Optional: an AuthCredential of another auth type has
\* oauth2 = None.
Credentials == { [oauth2 |-> "token"], [oauth2 |-> None] }

TitleOf(p) == "title" \o ToString(p)
BodyOf(p) == "body" \o ToString(p)

\* Return values of create_slide (the f-string argument kept beside the text).
MsgNoLayout == "Error: Could not find a suitable layout with both a title and a body placeholder in the presentation template."
MsgNoElements == "Error: Could not find elements on the newly created slide"
MsgNoPlaceholders == "Error: Could not find title or body placeholders on the new slide using layout"
MsgSuccess == "created successfully."
MsgUnexpected == "An unexpected error occurred"

Returned(msg, arg) == [kind |-> "returned", msg |-> msg, arg |-> arg]
Raised(exc) == [kind |-> "raised", msg |-> exc, arg |-> None]
NoResult == [kind |-> "none", msg |-> None, arg |-> None]

----------------------------------------------------------------------------
(* Layout selection: lines 161-176 *)

PlaceholderType(element) == element.placeholder

HasTitle(layout) ==
    \E k \in 1..Len(layout.pageElements) :
        PlaceholderType(layout.pageElements[k]) = "TITLE"

HasBody(layout) ==
    \E k \in 1..Len(layout.pageElements) :
        PlaceholderType(layout.pageElements[k]) = "BODY"

QualifiesAny(layout) == HasTitle(layout) \/ HasBody(layout)
Qualifies(layout) == HasTitle(layout) /\ HasBody(layout)

RECURSIVE ScanLastMatch(_, _, _)
ScanLastMatch(ls, i, found) ==
    IF i > Len(ls) THEN found
    ELSE ScanLastMatch(ls, i + 1, IF Qualifies(ls[i]) THEN ls[i].objectId ELSE found)

FindLastSuitable(ls) == ScanLastMatch(ls, 1, None)

\* for layout in layouts: ... if has_title and has_body: ...; break
RECURSIVE ScanLayouts(_, _)
ScanLayouts(ls, i) ==
    IF i > Len(ls) THEN None
    ELSE IF Qualifies(ls[i]) THEN ls[i].objectId
    ELSE ScanLayouts(ls, i + 1)

FindSuitableLayout(ls) == ScanLayouts(ls, 1)

----------------------------------------------------------------------------
(* The service *)

MkLayout(i, shape) ==
    [objectId |-> "layout" \o ToString(i),
     pageElements |-> [k \in 1..Len(shape) |-> [placeholder |-> shape[k]]]]

LayoutLists ==
    UNION { { [i \in 1..n |-> MkLayout(i, f[i])] : f \in [1..n -> LayoutShapes] }
            : n \in 0..MaxLayouts }

MkElement(slideId, k, role) ==
    [objectId |-> slideId \o "_e" \o ToString(k), placeholder |-> role, text |-> ""]

\* A slide as the service holds it; createdBy records the invocation whose
\* createSlide request made it (0: part of the template).
MkSlide(slideId, shape, p) ==
    [objectId |-> slideId,
     createdBy |-> p,
     hasElementsKey |-> shape # NoKey,
     pageElements |-> IF shape = NoKey THEN <<>>
                      ELSE [k \in 1..Len(shape) |-> MkElement(slideId, k, shape[k])]]

HasSlide(ss, id) == \E i \in 1..Len(ss) : ss[i].objectId = id

----------------------------------------------------------------------------
(* create_slide: lines 148-231 *)

\* The locals of an invocation before its first statement.
NewInvocation(p) ==
    [pc |-> "idle",
     title |-> TitleOf(p),
     body |-> BodyOf(p),
     suitable_layout_id |-> None,
     slide_id |-> None,
     title_id |-> None,
     body_id |-> None,
     batches |-> <<>>,
     log |-> <<>>,          \* the remote calls issued so far, in order
     result |-> NoResult]

Ret(p, entry, res) ==
    inv' = [inv EXCEPT ![p].pc = "done",
                       ![p].log = Append(@, entry),
                       ![p].result = res]

\* except Exception as e: return f"An unexpected error occurred: {e}"
Unexpected(p, entry, exc) == Ret(p, entry, Returned(MsgUnexpected, exc))

\* creds = credentials.Credentials(token=credential.oauth2.access_token)
\* slides_service = build("slides", "v1", credentials=creds)
\* Both statements stand before the try: an exception here leaves the function.
Build(p) ==
    /\ inv[p].pc = "idle"
    /\ \E credential \in Credentials :
          IF credential.oauth2 = None
          THEN inv' = [inv EXCEPT ![p].pc = "done",
                                  ![p].result = Raised("AttributeError")]
          ELSE inv' = [inv EXCEPT ![p].pc = "get_layouts"]
    /\ UNCHANGED <<layouts, slides, uuidCtr, call, netCalls>>

\* 1.-2. presentations().get(fields="layouts"), the scan, the check of line 178
GetLayouts(p) ==
    /\ inv[p].pc = "get_layouts"
    /\ \E ok \in BOOLEAN :
          LET entry == [op |-> "get_layouts", ok |-> ok, arg |-> None]
              suitable == FindSuitableLayout(layouts)
          IN  IF ~ok THEN Unexpected(p, entry, "HttpError")
              ELSE IF suitable = None THEN Ret(p, entry, Returned(MsgNoLayout, None))
              ELSE inv' = [inv EXCEPT ![p].pc = "create",
                                      ![p].log = Append(@, entry),
                                      ![p].suitable_layout_id = suitable]
    /\ UNCHANGED <<layouts, slides, uuidCtr, call, netCalls>>

\* "objectId": f"new_slide_{uuid.uuid4()}"
NewSlideId(n) == "new_slide_" \o ToString(n)

\* 3. batchUpdate([createSlide]); slide_id = response["replies"][0]["createSlide"]["objectId"]
\* The service rejects an objectId already in use; it appends the new slide and
\* gives it page elements of its own choosing (one of SlideShapes).
CreateSlide(p) ==
    /\ inv[p].pc = "create"
    /\ uuidCtr' = uuidCtr + 1
    /\ LET objectId == NewSlideId(uuidCtr + 1)
           request == [objectId |-> objectId, layoutId |-> inv[p].suitable_layout_id]
       IN  \/ /\ Unexpected(p, [op |-> "create_slide", ok |-> FALSE, arg |-> request], "HttpError")
              /\ UNCHANGED slides
           \/ /\ ~HasSlide(slides, objectId)
              /\ \E shape \in SlideShapes :
                    slides' = Append(slides, MkSlide(objectId, shape, p))
              /\ inv' = [inv EXCEPT ![p].pc = "get_slides",
                                    ![p].log = Append(@, [op |-> "create_slide", ok |-> TRUE, arg |-> request]),
                                    ![p].slide_id = objectId]
    /\ UNCHANGED <<layouts, call, netCalls>>

\* The mutant looks at the first slide of the reply whatever its id.
SlideIndexFirst(ss, id) == IF Len(ss) = 0 THEN 0 ELSE 1

\* next(... for s in slide if s['objectId'] == slide_id): the first slide of
\* the reply with that id (0: none)
SlideIndex(ss, id) ==
    IF \E i \in 1..Len(ss) : ss[i].objectId = id
    THEN CHOOSE i \in 1..Len(ss) :
            /\ ss[i].objectId = id
            /\ \A j \in 1..(i - 1) : ss[j].objectId # id
    ELSE 0

\* The mutant takes the first element whatever its role.
FirstElement(elements, role) ==
    IF elements = <<>> THEN None ELSE elements[1].objectId

\* next((e["objectId"] for e in new_slide_elements if ...get("type") == role), None)
FirstWithRole(elements, role) ==
    IF \E k \in 1..Len(elements) : PlaceholderType(elements[k]) = role
    THEN LET k == CHOOSE k \in 1..Len(elements) :
                     /\ PlaceholderType(elements[k]) = role
                     /\ \A j \in 1..(k - 1) : PlaceholderType(elements[j]) # role
         IN  elements[k].objectId
    ELSE None

\* insert_text_requests and the batchUpdate calls that carry them: one call
\* with both insertions.  The mutant sends one call per insertion.
InsertTextCallsSplit(title_id, body_id, title, body) ==
    << << [objectId |-> title_id, text |-> title] >>,
       << [objectId |-> body_id, text |-> body] >> >>

InsertTextCalls(title_id, body_id, title, body) ==
    << << [objectId |-> title_id, text |-> title],
          [objectId |-> body_id, text |-> body] >> >>

\* if not title_id or not body_id
MissingPlaceholder(title_id, body_id) == title_id = None \/ body_id = None

\* new_slide_elements = next((s['pageElements'] for s in slide
\*                            if s['objectId'] == slide_id), None)
\* s['pageElements'] raises KeyError on a slide whose JSON lacks the key.
NewSlideElements(reply, slide_id) ==
    LET i == SlideIndex(reply, slide_id)
    IN  IF i = 0 THEN [raised |-> FALSE, found |-> FALSE, elements |-> <<>>]
        ELSE IF ~reply[i].hasElementsKey
             THEN [raised |-> TRUE, found |-> FALSE, elements |-> <<>>]
        ELSE [raised |-> FALSE, found |-> TRUE, elements |-> reply[i].pageElements]

\* 4. presentations().get(fields="slides(...)").get('slides', []) and lines 203-217
GetSlides(p) ==
    /\ inv[p].pc = "get_slides"
    /\ \E ok \in BOOLEAN :
          LET entry == [op |-> "get_slides", ok |-> ok, arg |-> None]
              new == NewSlideElements(slides, inv[p].slide_id)
              title_id == FirstWithRole(new.elements, "TITLE")
              body_id == FirstWithRole(new.elements, "BODY")
          IN  IF ~ok THEN Unexpected(p, entry, "HttpError")
              ELSE IF new.raised THEN Unexpected(p, entry, "KeyError")
              \* if not new_slide_elements: None or an empty list
              ELSE IF ~new.found \/ new.elements = <<>>
                   THEN Ret(p, entry, Returned(MsgNoElements, inv[p].slide_id))
              ELSE IF MissingPlaceholder(title_id, body_id)
                   THEN Ret(p, entry, Returned(MsgNoPlaceholders, inv[p].suitable_layout_id))
              ELSE inv' = [inv EXCEPT ![p].pc = "insert",
                                      ![p].log = Append(@, entry),
                                      ![p].title_id = title_id,
                                      ![p].body_id = body_id,
                                      ![p].batches = InsertTextCalls(title_id, body_id,
                                                                     inv[p].title, inv[p].body)]
    /\ UNCHANGED <<layouts, slides, uuidCtr, call, netCalls>>

\* The service's insertText: the text is inserted at index 0 of the shape.
RECURSIVE ApplyInserts(_, _)
ApplyInserts(ss, requests) ==
    IF requests = <<>> THEN ss
    ELSE LET r == Head(requests)
             written == [i \in 1..Len(ss) |->
                           [ss[i] EXCEPT !.pageElements =
                              [k \in 1..Len(ss[i].pageElements) |->
                                 IF ss[i].pageElements[k].objectId = r.objectId
                                 THEN [ss[i].pageElements[k] EXCEPT !.text = r.text \o @]
                                 ELSE ss[i].pageElements[k]]]]
         IN  ApplyInserts(written, Tail(requests))

AllElementIds(ss) ==
    UNION { { ss[i].pageElements[k].objectId : k \in 1..Len(ss[i].pageElements) }
            : i \in 1..Len(ss) }

\* The mutant reports success whatever the call did.
AfterInsertAlways(ok, title) == Returned(MsgSuccess, title)

\* return f"Slide '{title}' created successfully." after the call, the
\* except clause when it raised
AfterInsert(ok, title) ==
    IF ok THEN Returned(MsgSuccess, title) ELSE Returned(MsgUnexpected, "HttpError")

\* 5. batchUpdate(insert_text_requests) and the return of line 229.  The
\* service rejects a batch that names an element the presentation lacks.
InsertText(p) ==
    /\ inv[p].pc = "insert"
    /\ LET requests == Head(inv[p].batches)
           rest == Tail(inv[p].batches)
           valid == \A k \in 1..Len(requests) : requests[k].objectId \in AllElementIds(slides)
       IN  \E ok \in {TRUE, FALSE} :
             /\ ok => valid
             /\ slides' = IF ok THEN ApplyInserts(slides, requests) ELSE slides
             /\ LET entry == [op |-> "insert_text", ok |-> ok, arg |-> requests]
                IN  IF ok /\ rest # <<>>
                    THEN inv' = [inv EXCEPT ![p].log = Append(@, entry),
                                            ![p].batches = rest]
                    ELSE Ret(p, entry, AfterInsert(ok, inv[p].title))
    /\ UNCHANGED <<layouts, uuidCtr, call, netCalls>>

----------------------------------------------------------------------------
(* The three other tools: lines 101-146 *)

\* A call of one of them: its arguments, position, the body content the Docs
\* service replied with (read_google_doc; retrieved says that it did) and its
\* result.
IdleCall ==
    [tool |-> "none", pc |-> "done", url |-> <<>>,
     retrieved |-> FALSE, doc |-> <<>>, result |-> NoResult]

StartCall(tool, url) ==
    [tool |-> tool, pc |-> "build", url |-> url,
     retrieved |-> FALSE, doc |-> <<>>, result |-> NoResult]

Finish(res) == call' = [call EXCEPT !.pc = "done", !.result = res]

\* TEMPLATE_ID = "1CHFtSGAvm-..." (line 53): "YOUR_PRESENTATION_ID_HERE" is not in it
TemplateIdIsPlaceholder == FALSE

MsgTemplateUnset == "Error: The TEMPLATE_ID has not been configured in agent.py."
MsgPresentationCreated == "Presentation created. ID: {pid}. URL: https://docs.google.com/presentation/d/{pid}/"
MsgError == "Error: {e}"
MsgInvalidUrl == "Error: Invalid Google Doc URL."
MsgFetchError == "Error fetching content from URL: {e}"

\* A URL is a sequence of symbols: DocPrefix is the literal "/document/d/",
\* "a" and "_" are characters of the class [a-zA-Z0-9-_], "?" is any other.
DocPrefix == "/document/d/"
IdChars == {"a", "_"}
UrlSymbols == {DocPrefix, "?"} \cup IdChars

Urls == UNION { [1..n -> UrlSymbols] : n \in 0..MaxUrlLen }

\* re.search(r"/document/d/([a-zA-Z0-9-_]+)", doc_url): the leftmost place
\* where the literal is followed by at least one character of the class
\* (0: no match)
MatchStart(url) ==
    LET hit(i) == url[i] = DocPrefix /\ i < Len(url) /\ url[i + 1] \in IdChars
    IN  IF \E i \in 1..Len(url) : hit(i)
        THEN CHOOSE i \in 1..Len(url) : hit(i) /\ \A j \in 1..(i - 1) : ~hit(j)
        ELSE 0

\* match.group(1): the longest run of class characters after the literal
RECURSIVE IdRun(_, _)
IdRun(url, i) ==
    IF i > Len(url) \/ url[i] \notin IdChars THEN <<>>
    ELSE <<url[i]>> \o IdRun(url, i + 1)

DocumentId(url) == IdRun(url, MatchStart(url) + 1)

\* The structural elements a document body can hold.  A paragraph holds
\* text runs and other elements (here an inline object); a text run may lack
\* its content.
TextRun(text) == [kind |-> "textRun", hasContent |-> TRUE, content |-> text]
EmptyTextRun == [kind |-> "textRun", hasContent |-> FALSE, content |-> ""]
InlineObject == [kind |-> "inlineObjectElement", hasContent |-> FALSE, content |-> ""]
Paragraph(elements) == [kind |-> "paragraph", elements |-> elements]
SectionBreak == [kind |-> "sectionBreak", elements |-> <<>>]

EntryShapes ==
    { SectionBreak,
      Paragraph(<<TextRun("A")>>),
      Paragraph(<<TextRun("B"), InlineObject, TextRun("C\n")>>),
      Paragraph(<<InlineObject, EmptyTextRun>>) }

Documents == UNION { [1..n -> EntryShapes] : n \in 0..MaxEntries }

\* elem.get("textRun", {}).get("content", "")
ElemText(elem) ==
    IF elem.kind = "textRun" /\ elem.hasContent THEN elem.content ELSE ""

\* "".join(xs); the mutant is "\n".join(xs)
RECURSIVE JoinNewline(_)
JoinNewline(xs) ==
    IF xs = <<>> THEN ""
    ELSE IF Len(xs) = 1 THEN xs[1]
    ELSE xs[1] \o "\n" \o JoinNewline(Tail(xs))

RECURSIVE Join(_)
Join(xs) == IF xs = <<>> THEN "" ELSE Head(xs) \o Join(Tail(xs))

\* The generator of lines 130-133: the elements' texts, paragraph by
\* paragraph, entries without "paragraph" skipped.
RECURSIVE RunTexts(_)
RunTexts(content) ==
    IF content = <<>> THEN <<>>
    ELSE LET value == Head(content)
         IN  (IF value.kind = "paragraph"
              THEN [j \in 1..Len(value.elements) |-> ElemText(value.elements[j])]
              ELSE <<>>) \o RunTexts(Tail(content))

ReadDocText(content) == Join(RunTexts(content))

\* create_presentation_from_template, lines 103-104
CreatePresentationBuild ==
    /\ call.tool = "none"
    /\ netCalls' = <<>>
    /\ \E credential \in Credentials :
          IF credential.oauth2 = None
          THEN call' = [StartCall("create_presentation_from_template", <<>>)
                           EXCEPT !.pc = "done", !.result = Raised("AttributeError")]
          ELSE call' = StartCall("create_presentation_from_template", <<>>)
    /\ UNCHANGED <<layouts, slides, uuidCtr, inv>>

\* lines 105-116
CopyTemplate ==
    /\ call.tool = "create_presentation_from_template"
    /\ call.pc = "build"
    /\ IF TemplateIdIsPlaceholder
       THEN Finish(Returned(MsgTemplateUnset, None)) /\ UNCHANGED netCalls
       ELSE /\ netCalls' = Append(netCalls, "drive.files.copy")
            /\ \/ Finish(Returned(MsgPresentationCreated, "pid"))
               \/ Finish(Returned(MsgError, "HttpError"))
    /\ UNCHANGED <<layouts, slides, uuidCtr, inv>>

\* read_google_doc, lines 121-122
ReadDocBuild ==
    /\ call.tool = "none"
    /\ netCalls' = <<>>
    /\ \E doc_url \in Urls, credential \in Credentials :
          IF credential.oauth2 = None
          THEN call' = [StartCall("read_google_doc", doc_url)
                           EXCEPT !.pc = "done", !.result = Raised("AttributeError")]
          ELSE call' = StartCall("read_google_doc", doc_url)
    /\ UNCHANGED <<layouts, slides, uuidCtr, inv>>

\* lines 123-136
ReadDoc ==
    /\ call.tool = "read_google_doc"
    /\ call.pc = "build"
    /\ IF MatchStart(call.url) = 0
       THEN Finish(Returned(MsgInvalidUrl, None)) /\ UNCHANGED netCalls
       ELSE /\ netCalls' = Append(netCalls, <<"docs.documents.get", DocumentId(call.url)>>)
            /\ \/ Finish(Returned(MsgError, "HttpError"))
               \/ \E doc \in Documents :
                     call' = [call EXCEPT !.pc = "done",
                                          !.retrieved = TRUE,
                                          !.doc = doc,
                                          !.result = Returned(ReadDocText(doc), None)]
    /\ UNCHANGED <<layouts, slides, uuidCtr, inv>>

\* read_content_from_public_url, lines 141-146: the fetch fails in transport,
\* answers with an error status (raise_for_status) or answers with a text.
ReadPublicUrl ==
    /\ call.tool = "none"
    /\ netCalls' = <<"requests.get">>
    /\ \E url \in Urls, outcome \in {"ConnectionError", "HTTPError", "text"} :
          call' = [StartCall("read_content_from_public_url", url)
                      EXCEPT !.pc = "done",
                             !.result = IF outcome = "text"
                                        THEN Returned("response.text", None)
                                        ELSE Returned(MsgFetchError, outcome)]
    /\ UNCHANGED <<layouts, slides, uuidCtr, inv>>

\* The result is handed to the agent, which may call the next tool.
AgentTakesResult ==
    /\ call.tool # "none"
    /\ call.pc = "done"
    /\ call' = IdleCall
    /\ netCalls' = <<>>
    /\ UNCHANGED <<layouts, slides, uuidCtr, inv>>

----------------------------------------------------------------------------
(* Specifications *)

\* The presentation as copied from the template: one slide made by nobody here.
TemplateSlides == << MkSlide("template_slide", <<"TITLE", "BODY">>, 0) >>

\* Spec: the invocations run against a template of at most one layout (what
\* matters to them after the scan is the chosen layout's id alone).
Init ==
    /\ layouts \in { ls \in LayoutLists : Len(ls) <= 1 }
    /\ slides = TemplateSlides
    /\ uuidCtr = 0
    /\ inv = [p \in Procs |-> NewInvocation(p)]
    /\ call = IdleCall
    /\ netCalls = <<>>

Next ==
    \E p \in Procs :
        \/ Build(p)
        \/ GetLayouts(p)
        \/ CreateSlide(p)
        \/ GetSlides(p)
        \/ InsertText(p)

Spec == Init /\ [][Next]_vars

\* LayoutSpec: one invocation against every layout list of up to MaxLayouts
\* layouts.
LayoutInit ==
    /\ layouts \in LayoutLists
    /\ slides = TemplateSlides
    /\ uuidCtr = 0
    /\ inv = [p \in Procs |-> NewInvocation(p)]
    /\ call = IdleCall
    /\ netCalls = <<>>

LayoutNext ==
    \/ Build(1)
    \/ GetLayouts(1)
    \/ CreateSlide(1)
    \/ GetSlides(1)
    \/ InsertText(1)

LayoutSpec == LayoutInit /\ [][LayoutNext]_vars

ToolInit ==
    /\ layouts = <<>>
    /\ slides = TemplateSlides
    /\ uuidCtr = 0
    /\ inv = [p \in Procs |-> NewInvocation(p)]
    /\ call = IdleCall
    /\ netCalls = <<>>

ToolNext ==
    \/ CreatePresentationBuild
    \/ CopyTemplate
    \/ ReadDocBuild
    \/ ReadDoc
    \/ ReadPublicUrl
    \/ AgentTakesResult

ToolSpec == ToolInit /\ [][ToolNext]_vars

----------------------------------------------------------------------------
(* Properties of create_slide *)

Ops(p) == [k \in 1..Len(inv[p].log) |-> inv[p].log[k].op]
Issued(p, op) == \E k \in 1..Len(inv[p].log) : inv[p].log[k].op = op
Completed(p, op) ==
    \E k \in 1..Len(inv[p].log) : inv[p].log[k].op = op /\ inv[p].log[k].ok

\* The slides a createSlide request of invocation p made.
SlidesOf(p) == { i \in 1..Len(slides) : slides[i].createdBy = p }

RolesOn(slide) ==
    { slide.pageElements[k].placeholder : k \in 1..Len(slide.pageElements) }

ElementsWith(slide, role, text) ==
    { k \in 1..Len(slide.pageElements) :
         /\ slide.pageElements[k].placeholder = role
         /\ slide.pageElements[k].text = text }

Untouched(slide) ==
    \A k \in 1..Len(slide.pageElements) : slide.pageElements[k].text = ""

IsSuccess(p) == inv[p].result = Returned(MsgSuccess, TitleOf(p))
IsError(p) == inv[p].result.kind = "returned" /\ inv[p].result.msg # MsgSuccess

\* C1: create_slide returns "Slide '{title}' created successfully." for the
\* title supplied only if the slide it created has a TITLE and a BODY
\* placeholder and its text-insertion request completed, the title written
\* into the one and the body into the other; and whenever the re-fetched new
\* slide lacks either placeholder the invocation returns an error message.
C1_SuccessOnlyWhenWritten ==
    \A p \in Procs :
        /\ (inv[p].result.kind = "returned" /\ inv[p].result.msg = MsgSuccess) =>
              /\ inv[p].result.arg = TitleOf(p)
              /\ Completed(p, "insert_text")
              /\ \E i \in SlidesOf(p) :
                    /\ ElementsWith(slides[i], "TITLE", TitleOf(p)) # {}
                    /\ ElementsWith(slides[i], "BODY", BodyOf(p)) # {}
        /\ (inv[p].pc = "done" /\ Completed(p, "get_slides")
              /\ \E i \in SlidesOf(p) : ~({"TITLE", "BODY"} \subseteq RolesOn(slides[i])))
           => IsError(p)

C1_Witness ==
    \E p \in Procs :
        /\ IsSuccess(p)
        /\ \E q \in Procs \ {p} :
              /\ inv[q].pc = "done" /\ Completed(q, "get_slides") /\ IsError(q)
              /\ \E i \in SlidesOf(q) : RolesOn(slides[i]) = {"TITLE", "SUBTITLE"}

\* C2: no tool raises: every call of the four tools ends by returning a string.
C2_NothingRaises ==
    /\ \A p \in Procs : inv[p].result.kind # "raised"
    /\ call.result.kind # "raised"

BothRoles(layout) ==
    /\ \E k \in 1..Len(layout.pageElements) : layout.pageElements[k].placeholder = "TITLE"
    /\ \E k \in 1..Len(layout.pageElements) : layout.pageElements[k].placeholder = "BODY"

\* C3: when the fetched layout list holds no layout with both a TITLE and a
\* BODY placeholder, create_slide returns the no-suitable-layout error and the
\* fetch of the layouts is the only remote call of the invocation.
C3_NoLayoutNoCreate ==
    \A p \in Procs :
        (Completed(p, "get_layouts") /\ \A i \in 1..Len(layouts) : ~BothRoles(layouts[i]))
        => /\ inv[p].pc = "done"
           /\ inv[p].result = Returned(MsgNoLayout, None)
           /\ Ops(p) = <<"get_layouts">>
           /\ Len(slides) = Len(TemplateSlides)

C3_Witness ==
    /\ Len(layouts) = 2
    /\ HasTitle(layouts[1]) /\ ~HasBody(layouts[1])
    /\ HasBody(layouts[2]) /\ ~HasTitle(layouts[2])
    /\ inv[1].result = Returned(MsgNoLayout, None)

\* C4: the layout a create-slide request references is the first layout of
\* the list, in the order returned, that has both a TITLE and a BODY
\* placeholder.
C4_FirstMatchWins ==
    \A p \in Procs : \A k \in 1..Len(inv[p].log) :
        inv[p].log[k].op = "create_slide" =>
            \E i \in 1..Len(layouts) :
                /\ layouts[i].objectId = inv[p].log[k].arg.layoutId
                /\ BothRoles(layouts[i])
                /\ \A j \in 1..(i - 1) : ~BothRoles(layouts[j])

C4_Witness ==
    /\ Len(layouts) = 2
    /\ ~BothRoles(layouts[1])
    /\ BothRoles(layouts[2])
    /\ \E k \in 1..Len(inv[1].log) :
          /\ inv[1].log[k].op = "create_slide"
          /\ inv[1].log[k].arg.layoutId = layouts[2].objectId

NoElements(slide) == ~slide.hasElementsKey \/ slide.pageElements = <<>>

\* C7: after a successful create-slide call and re-fetch, a new slide without
\* elements (no element list, or an empty one) yields the "Could not find
\* elements" message and a new slide with elements but without a TITLE or
\* without a BODY placeholder yields the "Could not find title or body
\* placeholders" message.
C7_SpecificMessages ==
    \A p \in Procs : \A i \in SlidesOf(p) :
        (inv[p].pc = "done" /\ Completed(p, "get_slides")) =>
            /\ NoElements(slides[i]) =>
                  inv[p].result = Returned(MsgNoElements, slides[i].objectId)
            /\ (~NoElements(slides[i]) /\ ~({"TITLE", "BODY"} \subseteq RolesOn(slides[i]))) =>
                  inv[p].result.msg = MsgNoPlaceholders

OpOrder == <<"get_layouts", "create_slide", "get_slides", "insert_text">>

\* The texts of the elements with this id.
TextOf(id) ==
    UNION { { slides[i].pageElements[k].text :
                k \in { k \in 1..Len(slides[i].pageElements) :
                            slides[i].pageElements[k].objectId = id } }
            : i \in 1..Len(slides) }

\* C8: the remote calls of an invocation are, in order, a prefix of fetch
\* layouts, create-slide, re-fetch slides, text insertion, each issued once and
\* only after the earlier ones completed; the one text-insertion request holds
\* both insertions, so the title is written exactly when the body is.
C8_CallOrder ==
    \A p \in Procs :
        /\ Len(inv[p].log) <= Len(OpOrder)
        /\ \A k \in 1..Len(inv[p].log) :
              /\ inv[p].log[k].op = OpOrder[k]
              /\ k < Len(inv[p].log) => inv[p].log[k].ok
        /\ inv[p].pc # "done" => \A k \in 1..Len(inv[p].log) : inv[p].log[k].ok
        /\ \A k \in 1..Len(inv[p].log) :
              inv[p].log[k].op = "insert_text" =>
                  inv[p].log[k].arg = << [objectId |-> inv[p].title_id, text |-> TitleOf(p)],
                                         [objectId |-> inv[p].body_id, text |-> BodyOf(p)] >>
        /\ inv[p].title_id # None =>
              (TitleOf(p) \in TextOf(inv[p].title_id) <=> BodyOf(p) \in TextOf(inv[p].body_id))

C8_Witness ==
    \E p \in Procs :
        /\ Ops(p) = OpOrder
        /\ \A k \in 1..Len(inv[p].log) : inv[p].log[k].ok
        /\ TitleOf(p) \in TextOf(inv[p].title_id)
        /\ BodyOf(p) \in TextOf(inv[p].body_id)

Failed(p) == \E k \in 1..Len(inv[p].log) : ~inv[p].log[k].ok

\* C9: nothing is rolled back.  The template's slides stay; an invocation
\* whose create-slide call completed has its slide in the presentation from
\* then on, and when the invocation then fails (re-fetch, missing elements or
\* placeholders, text insertion) it returns an error and that slide holds no
\* inserted text; an invocation whose create-slide call did not complete has
\* added no slide.
C9_NoRollback ==
    /\ \A i \in 1..Len(TemplateSlides) : i <= Len(slides) /\ slides[i] = TemplateSlides[i]
    /\ \A p \in Procs :
          IF Completed(p, "create_slide")
          THEN /\ \E i \in SlidesOf(p) : slides[i].objectId = inv[p].slide_id
               /\ Cardinality(SlidesOf(p)) = 1
               /\ (inv[p].pc = "done" /\ (Failed(p) \/ ~Issued(p, "insert_text"))) =>
                     /\ IsError(p)
                     /\ \A i \in SlidesOf(p) : Untouched(slides[i])
          ELSE SlidesOf(p) = {}

C9_Witness ==
    \E p \in Procs :
        /\ inv[p].pc = "done"
        /\ Issued(p, "insert_text") /\ Failed(p)
        /\ IsError(p)
        /\ \E i \in SlidesOf(p) : Untouched(slides[i]) /\ RolesOn(slides[i]) = {"TITLE", "BODY"}
        /\ \E q \in Procs \ {p} : inv[q].pc = "done" /\ ~Issued(q, "create_slide") /\ SlidesOf(q) = {}

ElementIdsOf(p) ==
    UNION { { slides[i].pageElements[k].objectId : k \in 1..Len(slides[i].pageElements) }
            : i \in SlidesOf(p) }

\* C10: the element ids a text-insertion request of an invocation names are
\* ids of elements of the slide that invocation's own create-slide request
\* made, and the texts of an invocation reach no other slide.
C10_OwnSlideOnly ==
    \A p \in Procs :
        /\ \A k \in 1..Len(inv[p].log) :
              inv[p].log[k].op = "insert_text" =>
                  \A r \in 1..Len(inv[p].log[k].arg) :
                      inv[p].log[k].arg[r].objectId \in ElementIdsOf(p)
        /\ \A i \in 1..Len(slides) :
              slides[i].createdBy # p =>
                  /\ ElementsWith(slides[i], "TITLE", TitleOf(p)) = {}
                  /\ ElementsWith(slides[i], "BODY", BodyOf(p)) = {}

\* Interleaved: invocation 2 created its slide first and has not yet inserted
\* its text when invocation 1, whose slide came second, has inserted its own.
C10_Witness ==
    /\ IsSuccess(1)
    /\ inv[2].pc = "insert"
    /\ slides[2].createdBy = 2 /\ slides[3].createdBy = 1
    /\ ElementsWith(slides[3], "TITLE", TitleOf(1)) # {}
    /\ ElementsWith(slides[3], "BODY", BodyOf(1)) # {}
    /\ Untouched(slides[2])

----------------------------------------------------------------------------
(* Properties of read_google_doc *)

\* The URL holds the literal "/document/d/" followed by an id character.
HasDocumentId(url) ==
    \E i \in 1..(Len(url) - 1) : url[i] = DocPrefix /\ url[i + 1] \in IdChars

\* C5: for a URL without "/document/d/<id>", read_google_doc returns
\* "Error: Invalid Google Doc URL." and makes no network call.
C5_InvalidUrlNoNetwork ==
    (call.tool = "read_google_doc" /\ call.pc = "done" /\ ~HasDocumentId(call.url))
    => /\ call.result = Returned(MsgInvalidUrl, None)
       /\ netCalls = <<>>

\* The places <<entry, element>> of the text runs of the body's paragraphs.
TextRunPlaces(doc) ==
    UNION { { <<i, j>> : j \in { j \in 1..Len(doc[i].elements) :
                                    doc[i].elements[j].kind = "textRun" } }
            : i \in { i \in 1..Len(doc) : doc[i].kind = "paragraph" } }

Before(a, b) == a[1] < b[1] \/ (a[1] = b[1] /\ a[2] <= b[2])

RECURSIVE InDocumentOrder(_, _)
InDocumentOrder(doc, places) ==
    IF places = {} THEN ""
    ELSE LET first == CHOOSE a \in places : \A b \in places : Before(a, b)
             run == doc[first[1]].elements[first[2]]
         IN  (IF run.hasContent THEN run.content ELSE "")
             \o InDocumentOrder(doc, places \ {first})

\* C6: for a retrieved body, read_google_doc returns the contents of the text
\* runs of the body's paragraphs, concatenated in document order with nothing
\* between them; other entries and other elements add nothing.
C6_TextRunsInOrder ==
    (call.tool = "read_google_doc" /\ call.retrieved)
    => call.result = Returned(InDocumentOrder(call.doc, TextRunPlaces(call.doc)), None)

\* Three paragraphs, two of them with text runs.
C6_Witness ==
    /\ call.tool = "read_google_doc"
    /\ call.retrieved
    /\ call.doc = << Paragraph(<<TextRun("B"), InlineObject, TextRun("C\n")>>),
                     Paragraph(<<InlineObject, EmptyTextRun>>),
                     Paragraph(<<TextRun("A")>>) >>
    /\ call.result.msg = "BC\nA"

====
